---- MODULE Spec2Model ----
(***************************************************************************)
(* Model of backend/app.py: the multi-provider feature-flag gateway.       *)
(* State: the module globals of app.py, the two JSON files the document-   *)
(* backed adapters read, and a record of the last completed call.          *)
(***************************************************************************)
EXTENDS Integers, Sequences, FiniteSets, TLC

VARIABLES
    BACKEND_PROVIDER,        \* app.py:65/499, always lower().strip()'ed
    started,                 \* startup_init has run
    _of_client,              \* app.py:103
    _ld_client,              \* app.py:106
    _ld_online_client,       \* app.py:107
    _fs_online_client,       \* app.py:109
    _gb_doc, _gb_mtime,      \* app.py:112-113
    _fs_doc, _fs_mtime,      \* app.py:114-115
    _fs_feature_id_by_name,  \* app.py:118
    _fs_segment_by_id,       \* app.py:119
    _fs_states_by_fid,       \* app.py:120
    gb_file,                 \* the file at _gb_features_path
    fs_file,                 \* the file at _fs_env_path
    call,                    \* the last call: its arguments and its outcome
    thr,                     \* request threads in flight (SpecConc)
    lists                    \* SpecConc: the list objects of _fs_states_by_fid, by identity

vars == <<BACKEND_PROVIDER, started, _of_client, _ld_client, _ld_online_client,
          _fs_online_client, _gb_doc, _gb_mtime, _fs_doc, _fs_mtime,
          _fs_feature_id_by_name, _fs_segment_by_id, _fs_states_by_fid,
          gb_file, fs_file, call, thr, lists>>

(***************************************************************************)
(* Python values.  Optional[T] is None or Some(x).  A JSON value is a      *)
(* tagged record; Missing stands for "key not in the dict".                *)
(***************************************************************************)
None == <<>>
Some(x) == <<x>>
Val(o) == o[1]

JNull == [k |-> "null", v |-> ""]
JBool(b) == [k |-> "bool", v |-> IF b THEN "True" ELSE "False"]
JStr(s) == [k |-> "str", v |-> s]
Missing == [k |-> "missing", v |-> ""]

\* str(x) of a JSON value: str(None) = "None", str(True) = "True", str(s) = s
PyStr(j) == IF j.k = "null" THEN "None" ELSE j.v

\* bool(x): None and "" are falsy, True is truthy, a non-empty string is truthy
PyBool(j) == IF j.k = "null" THEN FALSE ELSE IF j.k = "bool" THEN j.v = "True" ELSE j.v # ""

\* d.get(key): None when the key is absent
Get(j) == IF j = Missing THEN JNull ELSE j

\* d.get(key, dflt)
GetD(j, dflt) == IF j = Missing THEN dflt ELSE j

\* the outcome of a call: a returned value or a raised exception
Ret(x) == [raised |-> FALSE, ret |-> x]
Raise == [raised |-> TRUE, ret |-> JNull]

(***************************************************************************)
(* Provider names are strings that the code lower-cases and strips.  A     *)
(* string is [name, caps, pad]: the lower-case stripped text, whether some *)
(* letter is upper-case, and whether white space surrounds it.             *)
(***************************************************************************)
P(n) == [name |-> n, caps |-> FALSE, pad |-> FALSE]
Lower(s) == [s EXCEPT !.caps = FALSE]
Strip(s) == [s EXCEPT !.pad = FALSE]
\* a str is truthy unless it is empty
StrTruthy(s) == s.name # "" \/ s.pad

KnownProviders == {P("flagd"), P("launchdarkly"), P("launchdarkly-online"),
                   P("growthbook"), P("flagsmith"), P("flagsmith-online")}

\* a variant of _effective_provider without the hard-coded "flagd" fallback
EffectiveProviderNoFallback(req_provider, backend_provider) ==
    LET p == Strip(Lower(IF req_provider # None /\ StrTruthy(Val(req_provider))
                         THEN Val(req_provider) ELSE backend_provider))
    IN  IF p \notin KnownProviders THEN backend_provider ELSE p

\* _effective_provider(req_provider), reading the global BACKEND_PROVIDER
_effective_provider(req_provider, backend_provider) ==
    LET p == Strip(Lower(IF req_provider # None /\ StrTruthy(Val(req_provider))
                         THEN Val(req_provider)
                         ELSE IF StrTruthy(backend_provider) THEN backend_provider
                         ELSE P("flagd")))
    IN  IF p \notin KnownProviders THEN backend_provider ELSE p

(***************************************************************************)
(* Files.  A file is absent, or has a modification time and a content: a   *)
(* parsed document, or Garbage (text json.load rejects).                   *)
(***************************************************************************)
Garbage == [garbage |-> TRUE]
NoFile == [exists |-> FALSE, mtime |-> 0, content |-> Garbage]
File(m, c) == [exists |-> TRUE, mtime |-> m, content |-> c]

\* _load_json_with_cache(path, last_mtime) -> (doc | None, mtime), or raises
LoadStaleMutant(f, last_mtime) == IF ~f.exists THEN [raised |-> TRUE, doc |-> None, mtime |-> last_mtime] ELSE IF last_mtime = None \/ f.mtime >= Val(last_mtime) THEN (IF f.content = Garbage THEN [raised |-> TRUE, doc |-> None, mtime |-> last_mtime] ELSE [raised |-> FALSE, doc |-> Some(f.content), mtime |-> Some(f.mtime)]) ELSE [raised |-> FALSE, doc |-> None, mtime |-> last_mtime]

\* a variant of _load_json_with_cache that reports "nothing newer" for a missing file
\* once a document is cached
LoadMissingServesCache(f, last_mtime) ==
    IF ~f.exists
    THEN [raised |-> last_mtime = None, doc |-> None, mtime |-> last_mtime]
    ELSE IF last_mtime = None \/ f.mtime > Val(last_mtime)
         THEN IF f.content = Garbage
              THEN [raised |-> TRUE, doc |-> None, mtime |-> last_mtime]
              ELSE [raised |-> FALSE, doc |-> Some(f.content), mtime |-> Some(f.mtime)]
         ELSE [raised |-> FALSE, doc |-> None, mtime |-> last_mtime]

_load_json_with_cache(f, last_mtime) ==
    IF ~f.exists
    THEN [raised |-> TRUE, doc |-> None, mtime |-> last_mtime]
    ELSE IF last_mtime = None \/ f.mtime > Val(last_mtime)
         THEN IF f.content = Garbage
              THEN [raised |-> TRUE, doc |-> None, mtime |-> last_mtime]
              ELSE [raised |-> FALSE, doc |-> Some(f.content), mtime |-> Some(f.mtime)]
         ELSE [raised |-> FALSE, doc |-> None, mtime |-> last_mtime]

\* a variant of _gb_reload_if_needed that drops the cached document when the file
\* is not newer
GbReloadDropsCache(f, doc, mtime) ==
    LET r == _load_json_with_cache(f, mtime)
    IN  IF r.raised THEN [raised |-> TRUE, doc |-> doc, mtime |-> mtime]
        ELSE IF r.doc = None THEN [raised |-> FALSE, doc |-> None, mtime |-> mtime]
        ELSE [raised |-> FALSE, doc |-> r.doc, mtime |-> r.mtime]

(***************************************************************************)
(* GrowthBook (simple-condition) adapter.                                  *)
(* A document maps flag keys to a feature or Missing; a feature is         *)
(* [defaultValue, rules]; a rule is [condition, force]; a condition maps   *)
(* attribute names to an expected value or Missing (key not in condition). *)
(***************************************************************************)
\* _gb_reload_if_needed(): the new (_gb_doc, _gb_mtime), or raised
_gb_reload_if_needed(f, doc, mtime) ==
    LET r == _load_json_with_cache(f, mtime)
    IN  IF r.raised THEN [raised |-> TRUE, doc |-> doc, mtime |-> mtime]
        ELSE IF r.doc # None THEN [raised |-> FALSE, doc |-> r.doc, mtime |-> r.mtime]
        ELSE [raised |-> FALSE, doc |-> doc, mtime |-> mtime]

\* attrs = {"userId": user_id}; attrs.get(k)
GbAttr(user_id, k) == IF k = "userId" THEN JStr(user_id) ELSE JNull

\* all(str(attrs.get(k)) == str(v) for k, v in (cond or {}).items())
GbMatched(cond, user_id) ==
    \A k \in DOMAIN cond :
        cond[k] # Missing => PyStr(GbAttr(user_id, k)) = PyStr(cond[k])

\* a variant of the rule loop in which the last matching rule wins
GbRulesLastWins(feat, i, dflt, user_id, rules) ==
    LET m == {j \in i..Len(rules) : GbMatched(rules[j].condition, user_id)}
    IN  IF m = {} THEN GetD(feat.defaultValue, dflt)
        ELSE LET j == CHOOSE x \in m : \A y \in m : y <= x
             IN  GetD(rules[j].force, GetD(feat.defaultValue, dflt))

RECURSIVE GbRules(_, _, _, _, _)
\* the loop of app.py:286-291 from rule i on
GbRules(feat, i, dflt, user_id, rules) ==
    IF i > Len(rules)
    THEN GetD(feat.defaultValue, dflt)
    ELSE IF GbMatched(rules[i].condition, user_id)
         THEN GetD(rules[i].force, GetD(feat.defaultValue, dflt))
         ELSE GbRules(feat, i + 1, dflt, user_id, rules)

\* the body of _gb_get_value after the reload, on the cached document
GbEval(doc, flag_key, dflt, user_id) ==
    IF doc = None THEN dflt
    ELSE LET feat == Val(doc)[flag_key]
         IN  IF feat = Missing THEN dflt
             ELSE GbRules(feat, 1, dflt, user_id, feat.rules)

(***************************************************************************)
(* Flagsmith (segment-based) adapter, offline file.                        *)
(* A document is [features, segments, feature_states], three sequences:    *)
(* feature = [name, id]; segment = [id, rules], rule = [type, conditions], *)
(* condition = [operator, property, value]; feature state = [feature_id,   *)
(* segment_id (None or Some(id)), value, enabled].  A Python dict is a     *)
(* function on its keys.                                                   *)
(***************************************************************************)
EmptyDict == << >>
DictGet(d, key) == IF key \in DOMAIN d THEN Some(d[key]) ELSE None
DictSet(d, key, x) == [kk \in (DOMAIN d) \cup {key} |-> IF kk = key THEN x ELSE d[kk]]

RECURSIVE FsIndexFeatures(_, _, _)
\* app.py:304-306: _fs_feature_id_by_name[str(f["name"])] = int(f["id"])
FsIndexFeatures(features, i, d) ==
    IF i > Len(features) THEN d
    ELSE FsIndexFeatures(features, i + 1, DictSet(d, features[i].name, features[i].id))

RECURSIVE FsIndexSegments(_, _, _)
\* app.py:308-310: _fs_segment_by_id[int(s["id"])] = s
FsIndexSegments(segments, i, d) ==
    IF i > Len(segments) THEN d
    ELSE FsIndexSegments(segments, i + 1, DictSet(d, segments[i].id, segments[i]))

RECURSIVE FsIndexStates(_, _, _)
\* app.py:312-317: arr = d.get(fid, []); arr.append(st); d[fid] = arr
FsIndexStates(sts, i, d) ==
    IF i > Len(sts) THEN d
    ELSE LET fid == sts[i].feature_id
             arr == IF fid \in DOMAIN d THEN d[fid] ELSE << >>
         IN  FsIndexStates(sts, i + 1, DictSet(d, fid, Append(arr, sts[i])))

\* the first feature entry without "name" or "id" (f["name"], f["id"] raise KeyError), or 0
FsBadFeature(features) ==
    LET bad == {i \in 1..Len(features) : {"name", "id"} \ DOMAIN features[i] # {}}
    IN  IF bad = {} THEN 0 ELSE CHOOSE i \in bad : \A j \in bad : i <= j

\* a variant of _fs_reload_if_needed that adds the new document's entries to the
\* indexes without clearing them
FsReloadPatches(f, doc, mtime, byname, segs, states) ==
    LET r == _load_json_with_cache(f, mtime)
        keep == [doc |-> doc, mtime |-> mtime, byname |-> byname, segs |-> segs, states |-> states]
    IN  IF r.raised THEN [raised |-> TRUE] @@ keep
        ELSE IF r.doc = None THEN [raised |-> FALSE] @@ keep
        ELSE LET d == Val(r.doc)
             IN  IF FsBadFeature(d.features) # 0 THEN [raised |-> TRUE] @@ keep
                 ELSE [raised |-> FALSE, doc |-> r.doc, mtime |-> r.mtime,
                       byname |-> FsIndexFeatures(d.features, 1, byname),
                       segs |-> FsIndexSegments(d.segments, 1, segs),
                       states |-> FsIndexStates(d.feature_states, 1, states)]

\* a variant of _fs_reload_if_needed that builds the indexes before it publishes
\* anything, and publishes nothing when building fails
FsReloadAllOrNothing(f, doc, mtime, byname, segs, states) ==
    LET r == _load_json_with_cache(f, mtime)
        keep == [doc |-> doc, mtime |-> mtime, byname |-> byname, segs |-> segs, states |-> states]
    IN  IF r.raised THEN [raised |-> TRUE] @@ keep
        ELSE IF r.doc = None THEN [raised |-> FALSE] @@ keep
        ELSE LET d == Val(r.doc)
             IN  IF FsBadFeature(d.features) # 0 THEN [raised |-> TRUE] @@ keep
                 ELSE [raised |-> FALSE, doc |-> r.doc, mtime |-> r.mtime,
                       byname |-> FsIndexFeatures(d.features, 1, EmptyDict),
                       segs |-> FsIndexSegments(d.segments, 1, EmptyDict),
                       states |-> FsIndexStates(d.feature_states, 1, EmptyDict)]

\* _fs_reload_if_needed() run to completion: the new globals, and whether it raised.
\* A KeyError in the loop of app.py:305-306 comes after _fs_doc and _fs_mtime are
\* assigned and the name index is cleared, and before the other two are touched.
_fs_reload_if_needed(f, doc, mtime, byname, segs, states) ==
    LET r == _load_json_with_cache(f, mtime)
        keep == [doc |-> doc, mtime |-> mtime, byname |-> byname, segs |-> segs, states |-> states]
    IN  IF r.raised THEN [raised |-> TRUE] @@ keep
        ELSE IF r.doc = None THEN [raised |-> FALSE] @@ keep
        ELSE LET d == Val(r.doc)
                 bad == FsBadFeature(d.features)
             IN  IF bad # 0
                 THEN [raised |-> TRUE, doc |-> r.doc, mtime |-> r.mtime,
                       byname |-> FsIndexFeatures(SubSeq(d.features, 1, bad - 1), 1, EmptyDict),
                       segs |-> segs, states |-> states]
                 ELSE
                 [raised |-> FALSE, doc |-> r.doc, mtime |-> r.mtime,
                  byname |-> FsIndexFeatures(d.features, 1, EmptyDict),
                  segs |-> FsIndexSegments(d.segments, 1, EmptyDict),
                  states |-> FsIndexStates(d.feature_states, 1, EmptyDict)]

\* attrs = {"userId": user_id}; attrs.get(prop)
FsAttr(user_id, prop) == IF prop = "userId" THEN JStr(user_id) ELSE JNull

RECURSIVE FsConds(_, _, _)
\* app.py:323-331: TRUE when the loop over a rule's conditions runs through
FsConds(conds, i, user_id) ==
    IF i > Len(conds) THEN TRUE
    ELSE IF conds[i].operator = "EQUAL"
         THEN IF PyStr(FsAttr(user_id, conds[i].property)) # PyStr(conds[i].value)
              THEN FALSE
              ELSE FsConds(conds, i + 1, user_id)
         ELSE FALSE

RECURSIVE FsRules(_, _, _)
\* app.py:320-332: the loop over a segment's rules from rule i on
FsRules(rules, i, user_id) ==
    IF i > Len(rules) THEN TRUE
    ELSE IF rules[i].type # "ALL"
         THEN FsRules(rules, i + 1, user_id)
         ELSE IF FsConds(rules[i].conditions, 1, user_id)
              THEN FsRules(rules, i + 1, user_id)
              ELSE FALSE

_fs_match_segment(segment, user_id) == FsRules(segment.rules, 1, user_id)

\* app.py:344-347
FsMatchedSegIds(segs, user_id) == {sid \in DOMAIN segs : _fs_match_segment(segs[sid], user_id)}

RECURSIVE FsFirstScoped(_, _, _)
\* app.py:348-350
FsFirstScoped(states, i, matched) ==
    IF i > Len(states) THEN None
    ELSE IF states[i].segment_id # None /\ Val(states[i].segment_id) \in matched
         THEN Some(states[i])
         ELSE FsFirstScoped(states, i + 1, matched)

RECURSIVE FsFirstDefault(_, _)
\* app.py:351-353
FsFirstDefault(states, i) ==
    IF i > Len(states) THEN None
    ELSE IF states[i].segment_id = None THEN Some(states[i])
         ELSE FsFirstDefault(states, i + 1)

\* the body of _fs_resolve_state after the reload, on the cached globals
FsResolve(doc, byname, segs, statesByFid, flag_key, user_id) ==
    IF doc = None THEN None
    ELSE LET fid == DictGet(byname, flag_key)
         IN  IF fid = None \/ Val(fid) = 0 THEN None
             ELSE LET states == IF Val(fid) \in DOMAIN statesByFid THEN statesByFid[Val(fid)] ELSE << >>
                  IN  IF states = << >> THEN None
                      ELSE LET scoped == FsFirstScoped(states, 1, FsMatchedSegIds(segs, user_id))
                           IN  IF scoped # None THEN scoped ELSE FsFirstDefault(states, 1)

\* a variant of _fs_bool_from_state that goes from an absent value straight to the default
FsBoolIgnoresEnabled(state, dflt) ==
    IF state = None THEN JBool(PyBool(dflt))
    ELSE IF Get(Val(state).value) = JNull
         THEN JBool(PyBool(dflt))
         ELSE JBool(PyBool(Val(state).value))

\* _fs_bool_from_state(state, default)
_fs_bool_from_state(state, dflt) ==
    IF state = None THEN JBool(PyBool(dflt))
    ELSE IF Get(Val(state).value) = JNull
         THEN JBool(PyBool(GetD(Val(state).enabled, dflt)))
         ELSE JBool(PyBool(Val(state).value))

\* _fs_str_from_state(state, default)
_fs_str_from_state(state, dflt) ==
    IF state = None THEN JStr(PyStr(dflt))
    ELSE IF Get(Val(state).value) = JNull
         THEN JStr(PyStr(dflt))
         ELSE JStr(PyStr(Val(state).value))


(***************************************************************************)
(* Initial values of the module globals (app.py:103-120) and the calls.    *)
(***************************************************************************)
NoCall == [fn |-> "none"]

ClientsInit ==
    /\ _of_client = None /\ _ld_client = None
    /\ _ld_online_client = None /\ _fs_online_client = None

CachesInit ==
    /\ _gb_doc = None /\ _gb_mtime = None
    /\ _fs_doc = None /\ _fs_mtime = None
    /\ _fs_feature_id_by_name = EmptyDict
    /\ _fs_segment_by_id = EmptyDict
    /\ _fs_states_by_fid = EmptyDict

GlobalsInit ==
    /\ ClientsInit /\ CachesInit
    /\ call = NoCall
    /\ thr = << >>
    /\ lists = << >>

HandlesUnchanged == UNCHANGED <<_of_client, _ld_client, _ld_online_client, _fs_online_client>>
GbUnchanged == UNCHANGED <<_gb_doc, _gb_mtime>>
FsUnchanged == UNCHANGED <<_fs_doc, _fs_mtime, _fs_feature_id_by_name, _fs_segment_by_id, _fs_states_by_fid>>
EnvUnchanged == UNCHANGED <<BACKEND_PROVIDER, started, gb_file, fs_file, thr, lists>>

\* _gb_get_value(flag_key, default, user_id): reload, then evaluate
_gb_get_value(flag_key, dflt, user_id) ==
    LET r == _gb_reload_if_needed(gb_file, _gb_doc, _gb_mtime)
    IN  /\ _gb_doc' = r.doc
        /\ _gb_mtime' = r.mtime
        /\ call' = [fn |-> "_gb_get_value", flag_key |-> flag_key, dflt |-> dflt,
                    user_id |-> user_id, raised |-> r.raised,
                    ret |-> IF r.raised THEN JNull ELSE GbEval(r.doc, flag_key, dflt, user_id)]
        /\ HandlesUnchanged /\ FsUnchanged /\ EnvUnchanged

(***************************************************************************)
(* SpecGb: the simple-condition evaluator on every document of GbDocs.     *)
(***************************************************************************)
MaxRules == 2

GbFlag == "new-badge"
GbFlagKeys == {GbFlag, "cta-color"}
GbUsers == {"vip", "guest"}
GbDefaults == {JBool(FALSE), JStr("blue")}
GbCondValues == [userId : {Missing, JStr("vip")}, plan : {Missing, JStr("None"), JNull, JStr("pro")}]
GbForces == {Missing, JBool(TRUE), JStr("red"), JStr("green")}
GbRuleSet == [condition : GbCondValues, force : GbForces]
GbRuleSeqs == UNION {[1..n -> GbRuleSet] : n \in 0..MaxRules}
GbFeatures == [defaultValue : {Missing, JBool(FALSE), JStr("blue")}, rules : GbRuleSeqs]
GbDocs == {[kk \in GbFlagKeys |-> IF kk = GbFlag THEN ft ELSE Missing] : ft \in GbFeatures \cup {Missing}}

InitGb ==
    /\ GlobalsInit
    /\ BACKEND_PROVIDER = P("flagd") /\ started = FALSE
    /\ gb_file \in {File(1, d) : d \in GbDocs}
    /\ fs_file = NoFile

GbGetValueCall == \E k \in GbFlagKeys, d \in GbDefaults, u \in GbUsers : _gb_get_value(k, d, u)

NextGb == GbGetValueCall

SpecGb == InitGb /\ [][NextGb]_vars

\* the rules of the called feature, and those that match the caller's attributes
C2Feat == Val(_gb_doc)[call.flag_key]
C2Matching == {i \in 1..Len(C2Feat.rules) : GbMatched(C2Feat.rules[i].condition, call.user_id)}
C2First == CHOOSE i \in C2Matching : \A j \in C2Matching : i <= j
C2FeatDefault == IF C2Feat.defaultValue # Missing THEN C2Feat.defaultValue ELSE call.dflt

\* C2: _gb_get_value returns the caller default for an absent flag; else the force
\* of the first rule in file order whose condition string-equality-matches the
\* attributes (the feature's defaultValue, else the caller default, when that rule
\* has no force); else the feature's defaultValue; else the caller default.
C2_FirstMatchWins ==
    (call.fn = "_gb_get_value" /\ ~call.raised) =>
        IF C2Feat = Missing THEN call.ret = call.dflt
        ELSE IF C2Matching # {}
             THEN call.ret = (IF C2Feat.rules[C2First].force # Missing
                              THEN C2Feat.rules[C2First].force ELSE C2FeatDefault)
             ELSE call.ret = C2FeatDefault

\* two rules match, with different forces, and the first one's force is returned
C2_Witness ==
    /\ call.fn = "_gb_get_value" /\ ~call.raised
    /\ C2Feat # Missing
    /\ Cardinality(C2Matching) = 2
    /\ C2Feat.rules[1].force = JStr("red") /\ C2Feat.rules[2].force = JStr("green")
    /\ call.ret = JStr("red")

\* every rule of the called feature names the attribute `plan`, which no request has
C11AllNamePlan == \A i \in 1..Len(C2Feat.rules) : C2Feat.rules[i].condition.plan # Missing

\* C11: a rule whose condition names an attribute absent from the request attributes
\* never matches, whatever value the condition expects (null and "None" included):
\* when every rule of the feature names `plan`, no force is returned.
C11_MissingAttrNeverMatches ==
    (call.fn = "_gb_get_value" /\ ~call.raised /\ C2Feat # Missing /\ C11AllNamePlan) =>
        call.ret = C2FeatDefault

\* the same for conditions that expect a value other than null and "None"
C11_MissingAttrConcreteValue ==
    (call.fn = "_gb_get_value" /\ ~call.raised /\ C2Feat # Missing /\ C11AllNamePlan
        /\ \A i \in 1..Len(C2Feat.rules) : C2Feat.rules[i].condition.plan \notin {JNull, JStr("None")}) =>
        call.ret = C2FeatDefault

\* the rules of the called feature whose condition has no entry
C24Empty == {i \in 1..Len(C2Feat.rules) : \A k \in DOMAIN C2Feat.rules[i].condition :
                                             C2Feat.rules[i].condition[k] = Missing}

\* C24 (simple conditions): a rule with an empty or absent condition matches every
\* request: no later rule is applied, and the feature's defaultValue is returned
\* only as the fallback of a matching rule without force.
C24_EmptyConditionShadows ==
    (call.fn = "_gb_get_value" /\ ~call.raised /\ C2Feat # Missing /\ C24Empty # {}) =>
        /\ C24Empty \subseteq C2Matching
        /\ \A i \in C24Empty : C2First <= i
        /\ call.ret = (IF C2Feat.rules[C2First].force # Missing
                       THEN C2Feat.rules[C2First].force ELSE C2FeatDefault)

\* vip gets the force of a first rule without condition, not that of the second
\* rule, which names vip
C24_EmptyRuleWins ==
    /\ call.fn = "_gb_get_value" /\ ~call.raised /\ C2Feat # Missing /\ call.user_id = "vip"
    /\ Len(C2Feat.rules) = 2 /\ C24Empty = {1}
    /\ C2Feat.rules[2].condition.userId = JStr("vip")
    /\ C2Feat.rules[1].force = JStr("red") /\ C2Feat.rules[2].force = JStr("green")
    /\ C2Feat.defaultValue = JStr("blue")
    /\ call.ret = JStr("red")


\* _fs_resolve_state(flag_key, {"userId": user_id}): reload, then select a state
_fs_resolve_state(flag_key, user_id) ==
    LET r == _fs_reload_if_needed(fs_file, _fs_doc, _fs_mtime, _fs_feature_id_by_name,
                                  _fs_segment_by_id, _fs_states_by_fid)
    IN  /\ _fs_doc' = r.doc
        /\ _fs_mtime' = r.mtime
        /\ _fs_feature_id_by_name' = r.byname
        /\ _fs_segment_by_id' = r.segs
        /\ _fs_states_by_fid' = r.states
        /\ call' = [fn |-> "_fs_resolve_state", flag_key |-> flag_key, user_id |-> user_id,
                    raised |-> r.raised,
                    matched_seg_ids |-> IF r.raised THEN {} ELSE FsMatchedSegIds(r.segs, user_id),
                    state |-> IF r.raised THEN None
                              ELSE FsResolve(r.doc, r.byname, r.segs, r.states, flag_key, user_id)]
        /\ HandlesUnchanged /\ GbUnchanged /\ EnvUnchanged

(***************************************************************************)
(* SpecFs: the segment-based evaluator on every document of FsDocs.        *)
(* FsDocsSeg: one segment of every shape within the bounds, with a default *)
(* state ahead of a state scoped to it.  FsDocsStates: every sequence of   *)
(* states within the bounds over a few typical segments.                   *)
(***************************************************************************)
MaxConds == 2
MaxSegRules == 2
MaxStates == 3

FsFlagA == "cta-color"
FsFlagB == "new-badge"
FsFlagKeys == {FsFlagA, FsFlagB}
FsUsers == {"vip", "guest"}

FsCondSet == [operator : {"EQUAL", "GREATER_THAN"}, property : {"userId"}, value : {JStr("vip")}]
FsCondSeqs == UNION {[1..n -> FsCondSet] : n \in 0..MaxConds}
FsRuleSet == [type : {"ALL", "ANY"}, conditions : FsCondSeqs]
FsRuleSeqs == UNION {[1..n -> FsRuleSet] : n \in 0..MaxSegRules}

FsState(fid, sid, val) == [feature_id |-> fid, segment_id |-> sid, value |-> val, enabled |-> Missing]

FsDocsSeg ==
    {[features |-> <<[name |-> FsFlagA, id |-> 1]>>,
      segments |-> <<[id |-> 1, rules |-> rs]>>,
      feature_states |-> <<FsState(1, None, JStr("blue")), FsState(1, Some(1), JStr("red"))>>]
     : rs \in FsRuleSeqs}

FsCondVip == [operator |-> "EQUAL", property |-> "userId", value |-> JStr("vip")]
FsCondGt == [operator |-> "GREATER_THAN", property |-> "userId", value |-> JStr("vip")]
FsTypicalRules ==
    { << >>,
      <<[type |-> "ALL", conditions |-> <<FsCondVip>>]>>,
      <<[type |-> "ALL", conditions |-> <<FsCondGt>>]>>,
      <<[type |-> "ANY", conditions |-> <<FsCondGt>>]>> }
FsSegSeqs == {<< >>} \cup {<<[id |-> 1, rules |-> r1], [id |-> 2, rules |-> r2]>> : r1 \in FsTypicalRules, r2 \in FsTypicalRules}

\* the value of the i-th state of a document names its position
FsValueAt(i) == JStr(<<"v1", "v2", "v3", "v4", "v5", "v6">>[i])
FsFeatureIds == {<<1, 2>>, <<0, 1>>}
FsStateKinds(ids) == {<<ids[1], None>>, <<ids[1], Some(1)>>, <<ids[1], Some(2)>>, <<ids[2], None>>}
FsStateSeqs(ids) == UNION {{[i \in 1..n |-> FsState(kk[i][1], kk[i][2], FsValueAt(i))] : kk \in [1..n -> FsStateKinds(ids)]} : n \in 0..MaxStates}

FsDocsStates ==
    UNION {{[features |-> <<[name |-> FsFlagA, id |-> ids[1]], [name |-> FsFlagB, id |-> ids[2]]>>,
             segments |-> sg, feature_states |-> st]
            : sg \in FsSegSeqs, st \in FsStateSeqs(ids)} : ids \in FsFeatureIds}

FsDocs == FsDocsSeg \cup FsDocsStates

InitFs ==
    /\ GlobalsInit
    /\ BACKEND_PROVIDER = P("flagd") /\ started = FALSE
    /\ gb_file = NoFile
    /\ fs_file \in {File(1, d) : d \in FsDocs}

FsResolveCall == \E k \in FsFlagKeys, u \in FsUsers : _fs_resolve_state(k, u)

NextFs == FsResolveCall

SpecFs == InitFs /\ [][NextFs]_vars


\* the document the call was answered from, and what the claim expects of it
C3Doc == Val(_fs_doc)
C3Fids == {C3Doc.features[i].id : i \in {j \in 1..Len(C3Doc.features) : C3Doc.features[j].name = call.flag_key}}
C3States == {i \in 1..Len(C3Doc.feature_states) : C3Doc.feature_states[i].feature_id \in C3Fids}
C3MatchingSegs == {C3Doc.segments[i].id : i \in {j \in 1..Len(C3Doc.segments) : _fs_match_segment(C3Doc.segments[j], call.user_id)}}
C3Scoped == {i \in C3States : C3Doc.feature_states[i].segment_id # None /\ Val(C3Doc.feature_states[i].segment_id) \in C3MatchingSegs}
C3Default == {i \in C3States : C3Doc.feature_states[i].segment_id = None}
C3Min(S) == CHOOSE i \in S : \A j \in S : i <= j
C3Expected ==
    IF C3Scoped # {} THEN Some(C3Doc.feature_states[C3Min(C3Scoped)])
    ELSE IF C3Default # {} THEN Some(C3Doc.feature_states[C3Min(C3Default)])
    ELSE None

\* C3: _fs_resolve_state selects (a) the first state of the flag, in document order,
\* scoped to a segment that matches the context; (b) failing that the first state
\* with no segment_id; (c) failing that, none.
C3_Precedence ==
    (call.fn = "_fs_resolve_state" /\ ~call.raised) => call.state = C3Expected

\* C3 for the features whose numeric id is not 0: the precedence as the code has it
C3_PrecedenceNonzeroId ==
    (call.fn = "_fs_resolve_state" /\ ~call.raised /\ 0 \notin C3Fids) => call.state = C3Expected

\* C22: _fs_resolve_state returns no state only when the flag is not among the
\* document's features, or has no states, or has neither a state scoped to a
\* matching segment nor an unscoped one; whatever the feature's id, 0 included.
C22_AbsentOnlyWhenNoState ==
    (call.fn = "_fs_resolve_state" /\ ~call.raised /\ call.state = None) =>
        \/ C3Fids = {}
        \/ C3States = {}
        \/ (C3Scoped = {} /\ C3Default = {})

\* the same for the features whose id is not 0
C22_AbsentOnlyWhenNoStateNonzeroId ==
    (call.fn = "_fs_resolve_state" /\ ~call.raised /\ call.state = None /\ 0 \notin C3Fids) =>
        \/ C3Fids = {}
        \/ C3States = {}
        \/ (C3Scoped = {} /\ C3Default = {})

\* no state is returned for a feature of id 0 that has an unscoped state
C22_IdZeroAbsent ==
    /\ call.fn = "_fs_resolve_state" /\ ~call.raised /\ call.state = None
    /\ C3Fids = {0} /\ C3Default # {}

\* the segment has no rules, or only rules of type "ALL" without conditions
C24Vacuous(seg) ==
    \A i \in 1..Len(seg.rules) : seg.rules[i].type = "ALL" /\ seg.rules[i].conditions = << >>

\* the ids of the document's vacuous segments, and the flag's states scoped to them
C24VacuousIds == {C3Doc.segments[i].id : i \in {j \in 1..Len(C3Doc.segments) : C24Vacuous(C3Doc.segments[j])}}
C24ScopedToVacuous ==
    {i \in C3States : C3Doc.feature_states[i].segment_id # None
                      /\ Val(C3Doc.feature_states[i].segment_id) \in C24VacuousIds}

\* C24 (segments): a segment with no rules, or whose "ALL" rules have no conditions,
\* matches every context, and a flag with a state scoped to such a segment gets a
\* scoped state, not its default state, for every user.
C24_VacuousSegmentSelected ==
    (call.fn = "_fs_resolve_state" /\ ~call.raised) =>
        /\ C24VacuousIds \subseteq call.matched_seg_ids
        /\ C24ScopedToVacuous # {} =>
              (call.state # None /\ Val(call.state).segment_id # None)

\* the same for the features whose id is not 0
C24_VacuousSegmentSelectedNonzeroId ==
    (call.fn = "_fs_resolve_state" /\ ~call.raised /\ 0 \notin C3Fids) =>
        /\ C24VacuousIds \subseteq call.matched_seg_ids
        /\ C24ScopedToVacuous # {} =>
              (call.state # None /\ Val(call.state).segment_id # None)

\* guest gets the state scoped to a segment without rules although a default state
\* precedes it
C24_GuestGetsScopedState ==
    /\ call.fn = "_fs_resolve_state" /\ ~call.raised /\ call.user_id = "guest"
    /\ call.state # None /\ Val(call.state).segment_id # None
    /\ Val(Val(call.state).segment_id) \in C24VacuousIds
    /\ C3Default # {} /\ C3Min(C3Default) < C3Min(C3Scoped)

\* a scoped state is selected although a default state precedes it in the document
C3_ScopedAfterDefault ==
    /\ call.fn = "_fs_resolve_state" /\ ~call.raised
    /\ C3Scoped # {} /\ C3Default # {}
    /\ C3Min(C3Default) < C3Min(C3Scoped)
    /\ call.state = Some(C3Doc.feature_states[C3Min(C3Scoped)])

C5HasNonEqual(seg) ==
    \E i \in 1..Len(seg.rules) : \E j \in 1..Len(seg.rules[i].conditions) :
        seg.rules[i].conditions[j].operator # "EQUAL"

\* C5: a segment holding a condition whose operator is not "EQUAL" never matches,
\* wherever the condition sits, and no state scoped to that segment is selected.
C5_FailClosedOperator ==
    (call.fn = "_fs_resolve_state" /\ ~call.raised) =>
        \A i \in 1..Len(C3Doc.segments) :
            C5HasNonEqual(C3Doc.segments[i]) =>
                /\ C3Doc.segments[i].id \notin call.matched_seg_ids
                /\ (call.state # None => Val(call.state).segment_id # Some(C3Doc.segments[i].id))

\* C5 for the rules the matcher reads: a non-"EQUAL" condition in a rule of type "ALL"
C5HasNonEqualInAll(seg) ==
    \E i \in 1..Len(seg.rules) :
        /\ seg.rules[i].type = "ALL"
        /\ \E j \in 1..Len(seg.rules[i].conditions) : seg.rules[i].conditions[j].operator # "EQUAL"

C5_FailClosedInAllRules ==
    (call.fn = "_fs_resolve_state" /\ ~call.raised) =>
        \A i \in 1..Len(C3Doc.segments) :
            C5HasNonEqualInAll(C3Doc.segments[i]) =>
                /\ C3Doc.segments[i].id \notin call.matched_seg_ids
                /\ (call.state # None => Val(call.state).segment_id # Some(C3Doc.segments[i].id))

\* the segment has a rule whose type is not "ALL"
C16HasOtherType(seg) == \E i \in 1..Len(seg.rules) : seg.rules[i].type # "ALL"

\* C16: a segment holding a rule whose type is not "ALL" matches no context, and
\* no state scoped to that segment is selected.
C16_FailClosedRuleType ==
    (call.fn = "_fs_resolve_state" /\ ~call.raised) =>
        \A i \in 1..Len(C3Doc.segments) :
            C16HasOtherType(C3Doc.segments[i]) =>
                /\ C3Doc.segments[i].id \notin call.matched_seg_ids
                /\ (call.state # None => Val(call.state).segment_id # Some(C3Doc.segments[i].id))

\* the state scoped to a segment whose only rule has type "ANY" was selected
C16_AnyRuleSegmentSelected ==
    /\ call.fn = "_fs_resolve_state" /\ ~call.raised /\ call.state # None
    /\ \E i \in 1..Len(C3Doc.segments) :
          /\ Len(C3Doc.segments[i].rules) = 1 /\ C3Doc.segments[i].rules[1].type = "ANY"
          /\ Val(call.state).segment_id = Some(C3Doc.segments[i].id)


(***************************************************************************)
(* SpecProvider: _effective_provider, as healthz calls it, on every        *)
(* requested provider and every configured default of the sets below.      *)
(***************************************************************************)
ProviderNames == {"flagd", "launchdarkly", "launchdarkly-online", "growthbook",
                  "flagsmith", "flagsmith-online", "unknown-name", ""}
\* what os.getenv("BACKEND_PROVIDER", "flagd").lower().strip() can be
ConfiguredDefaults == {P(n) : n \in ProviderNames}
\* what a request can carry: absent, or any text
RequestedProviders ==
    {None} \cup {Some([name |-> n, caps |-> c, pad |-> w]) :
                 n \in ProviderNames, c \in BOOLEAN, w \in BOOLEAN}

InitProvider ==
    /\ GlobalsInit
    /\ BACKEND_PROVIDER \in ConfiguredDefaults /\ started = TRUE
    /\ gb_file = NoFile /\ fs_file = NoFile

\* healthz(provider): p = _effective_provider(provider)
healthz(provider) ==
    /\ call' = [fn |-> "_effective_provider", provider |-> provider,
                ret |-> _effective_provider(provider, BACKEND_PROVIDER)]
    /\ HandlesUnchanged /\ GbUnchanged /\ FsUnchanged /\ EnvUnchanged

HealthzCall == \E r \in RequestedProviders : healthz(r)

NextProvider == HealthzCall

SpecProvider == InitProvider /\ [][NextProvider]_vars

\* the requested provider names one of the six adapters (case and white space aside)
C4Recognized(req) == req # None /\ Strip(Lower(Val(req))) \in KnownProviders

\* C4: the effective provider is the requested one when it is present and names one
\* of the six adapters; otherwise it is the configured default exactly as
\* configured, recognized or not, never a hard-coded substitute.
C4_EffectiveProvider ==
    call.fn = "_effective_provider" =>
        call.ret = IF C4Recognized(call.provider) THEN Strip(Lower(Val(call.provider)))
                   ELSE BACKEND_PROVIDER

\* C4 wherever the configured default is not the empty string
C4_EffectiveProviderNonEmptyDefault ==
    (call.fn = "_effective_provider" /\ BACKEND_PROVIDER # P("")) =>
        call.ret = IF C4Recognized(call.provider) THEN Strip(Lower(Val(call.provider)))
                   ELSE BACKEND_PROVIDER


(***************************************************************************)
(* The router: ff_bool and ff_str.  `backend` is what the SDK call of a    *)
(* client-backed adapter does in this call: Some(value) or BackendRaises.  *)
(***************************************************************************)
Client == Some("client")
BackendRaises == <<"raises", "raises">>
NoBackend == << >>
ClientProviders == {P("launchdarkly"), P("launchdarkly-online"), P("flagd"), P("flagsmith-online")}

\* bool(v) at the end of ff_bool, str(v) at the end of ff_str
Coerce(fn, v) == IF fn = "ff_bool" THEN JBool(PyBool(v)) ELSE JStr(PyStr(v))

\* user_id or "anonymous" (build_of_context, build_ld_context, _fsm_online_*)
OrAnonymous(user_id) == IF user_id = "" THEN "anonymous" ELSE user_id

\* a variant of the handle test that connects on first use instead of raising
ClientMissingLazy(handle, backend) == handle = None /\ backend = BackendRaises

\* `if client is None: raise RuntimeError(...)`, app.py:420, 425, 430, 374, 388
ClientMissing(handle, backend) == handle = None

\* a variant of the client branches that answers with the default when the SDK raises
FfClientSwallows(fn, handle, dflt, backend) ==
    IF handle = None THEN Raise
    ELSE IF backend = BackendRaises THEN Ret(Coerce(fn, dflt))
    ELSE Ret(Coerce(fn, Val(backend)))

\* app.py:419-433 / 445-461: launchdarkly, launchdarkly-online, flagd;
\* the SDK call is client.variation(flag_key, ctx, default) or get_*_value(...)
FfClient(fn, handle, dflt, backend) ==
    IF ClientMissing(handle, backend) THEN Raise
    ELSE IF backend = BackendRaises THEN Raise
    ELSE Ret(Coerce(fn, Val(backend)))

\* a variant of _fsm_online_bool/_fsm_online_str that lets the failure out
FsmOnlinePropagates(fn, handle, dflt, backend) ==
    IF handle = None THEN Raise
    ELSE IF backend = BackendRaises THEN Raise
    ELSE IF Val(backend) # JNull THEN Ret(Coerce(fn, Val(backend)))
    ELSE Ret(Coerce(fn, dflt))

\* _fsm_online_bool / _fsm_online_str
_fsm_online(fn, handle, dflt, backend) ==
    IF ClientMissing(handle, backend) THEN Raise
    ELSE IF backend = BackendRaises THEN Ret(Coerce(fn, dflt))
    ELSE IF Val(backend) # JNull THEN Ret(Coerce(fn, Val(backend)))
    ELSE Ret(Coerce(fn, dflt))

\* app.py:434-435 / 462-464 on the reloaded growthbook cache r
FfGrowthbook(fn, r, flag_key, dflt, user_id) ==
    IF r.raised THEN Raise
    ELSE Ret(Coerce(fn, GbEval(r.doc, flag_key, dflt, user_id)))

\* app.py:436-438 / 465-467 on the reloaded flagsmith cache r
FfFlagsmith(fn, r, flag_key, dflt, user_id) ==
    IF r.raised THEN Raise
    ELSE LET state == FsResolve(r.doc, r.byname, r.segs, r.states, flag_key, user_id)
         IN  Ret(IF fn = "ff_bool" THEN _fs_bool_from_state(state, dflt)
                 ELSE _fs_str_from_state(state, dflt))

\* the dispatch shared by ff_bool and ff_str
Ff(fn, flag_key, dflt, user_id, provider, backend) ==
    LET p == _effective_provider(provider, BACKEND_PROVIDER)
        gb == IF p = P("growthbook")
              THEN _gb_reload_if_needed(gb_file, _gb_doc, _gb_mtime)
              ELSE [raised |-> FALSE, doc |-> _gb_doc, mtime |-> _gb_mtime]
        fs == IF p = P("flagsmith")
              THEN _fs_reload_if_needed(fs_file, _fs_doc, _fs_mtime, _fs_feature_id_by_name,
                                        _fs_segment_by_id, _fs_states_by_fid)
              ELSE [raised |-> FALSE, doc |-> _fs_doc, mtime |-> _fs_mtime,
                    byname |-> _fs_feature_id_by_name, segs |-> _fs_segment_by_id,
                    states |-> _fs_states_by_fid]
        res == IF p = P("launchdarkly") THEN FfClient(fn, _ld_client, dflt, backend)
               ELSE IF p = P("launchdarkly-online") THEN FfClient(fn, _ld_online_client, dflt, backend)
               ELSE IF p = P("flagd") THEN FfClient(fn, _of_client, dflt, backend)
               ELSE IF p = P("growthbook") THEN FfGrowthbook(fn, gb, flag_key, dflt, user_id)
               ELSE IF p = P("flagsmith") THEN FfFlagsmith(fn, fs, flag_key, dflt, user_id)
               ELSE IF p = P("flagsmith-online") THEN _fsm_online(fn, _fs_online_client, dflt, backend)
               ELSE Ret(Coerce(fn, dflt))
    IN  /\ (p \in ClientProviders) = (backend # NoBackend)
        /\ _gb_doc' = gb.doc /\ _gb_mtime' = gb.mtime
        /\ _fs_doc' = fs.doc /\ _fs_mtime' = fs.mtime
        /\ _fs_feature_id_by_name' = fs.byname
        /\ _fs_segment_by_id' = fs.segs
        /\ _fs_states_by_fid' = fs.states
        /\ call' = [fn |-> fn, flag_key |-> flag_key, dflt |-> dflt, user_id |-> user_id,
                    p |-> p, backend |-> backend,
                    last_mtime |-> IF p = P("growthbook") THEN _gb_mtime
                                   ELSE IF p = P("flagsmith") THEN _fs_mtime ELSE None,
                    uid |-> IF p \in ClientProviders THEN OrAnonymous(user_id) ELSE user_id,
                    raised |-> res.raised, ret |-> res.ret]
        /\ HandlesUnchanged /\ EnvUnchanged

ff_bool(flag_key, dflt, user_id, provider, backend) == Ff("ff_bool", flag_key, dflt, user_id, provider, backend)

ff_str(flag_key, dflt, user_id, provider, backend) == Ff("ff_str", flag_key, dflt, user_id, provider, backend)

\* the four initializers in the order startup_init calls them
InitOrder == <<"flagd", "launchdarkly", "launchdarkly-online", "flagsmith-online">>

\* a variant of startup_init with one try/except around all four initializers: the
\* first one that raises ends the sequence
StartupStopsAtFirstFailure(failing) ==
    LET reached(a) == \A i \in 1..4 : (\E k \in i..4 : InitOrder[k] = a) => InitOrder[i] \notin failing
    IN  /\ ~started
        /\ started' = TRUE
        /\ BACKEND_PROVIDER' = BACKEND_PROVIDER
        /\ _of_client' = IF reached("flagd") THEN Client ELSE None
        /\ _ld_client' = IF reached("launchdarkly") THEN Client ELSE None
        /\ _ld_online_client' = IF reached("launchdarkly-online") THEN Client ELSE None
        /\ _fs_online_client' = IF reached("flagsmith-online") THEN Client ELSE None
        /\ call' = [fn |-> "startup_init", failing |-> failing]
        /\ GbUnchanged /\ FsUnchanged
        /\ UNCHANGED <<gb_file, fs_file, thr, lists>>

\* startup_init(): each of the four initializers sets its handle unless it raises
startup_init(failing) ==
    /\ ~started
    /\ started' = TRUE
    /\ BACKEND_PROVIDER' = BACKEND_PROVIDER
    /\ _of_client' = IF "flagd" \in failing THEN None ELSE Client
    /\ _ld_client' = IF "launchdarkly" \in failing THEN None ELSE Client
    /\ _ld_online_client' = IF "launchdarkly-online" \in failing THEN None ELSE Client
    /\ _fs_online_client' = IF "flagsmith-online" \in failing THEN None ELSE Client
    /\ GbUnchanged /\ FsUnchanged
    /\ call' = [fn |-> "startup_init", failing |-> failing]
    /\ UNCHANGED <<gb_file, fs_file, thr, lists>>

(***************************************************************************)
(* Spec: the whole service.  Startup, then requests to all six adapters    *)
(* while the operator creates and deletes the two document files (their    *)
(* rewriting is SpecCache's).                                              *)
(***************************************************************************)
GbMainDoc ==
    [kk \in GbFlagKeys |->
        IF kk = "new-badge"
        THEN [defaultValue |-> JBool(FALSE),
              rules |-> <<[condition |-> [userId |-> JStr("vip"), plan |-> Missing], force |-> JBool(TRUE)]>>]
        ELSE [defaultValue |-> JStr("blue"),
              rules |-> <<[condition |-> [userId |-> JStr("vip"), plan |-> Missing], force |-> JStr("red")]>>]]

FsMainDoc ==
    [features |-> <<[name |-> "new-badge", id |-> 1], [name |-> "cta-color", id |-> 2]>>,
     segments |-> <<[id |-> 1, rules |-> <<[type |-> "ALL", conditions |-> <<FsCondVip>>]>>]>>,
     feature_states |->
        <<[feature_id |-> 1, segment_id |-> None, value |-> Missing, enabled |-> JBool(FALSE)],
          [feature_id |-> 1, segment_id |-> Some(1), value |-> Missing, enabled |-> JBool(TRUE)],
          FsState(2, None, JStr("blue")), FsState(2, Some(1), JStr("red"))>>]

MainDefaults == {P("flagd"), P("unknown-name")}
MainProviders == {None} \cup {Some(q) : q \in KnownProviders} \cup {Some(P("unknown-name"))}
MainUsers == {"vip"}
MainBackends == {NoBackend, BackendRaises, Some(JNull), Some(JBool(TRUE))}
Initializers == {"flagd", "launchdarkly", "launchdarkly-online", "flagsmith-online"}

Init ==
    /\ GlobalsInit
    /\ BACKEND_PROVIDER \in MainDefaults /\ started = FALSE
    /\ gb_file \in {NoFile, File(1, GbMainDoc)}
    /\ fs_file \in {NoFile, File(1, FsMainDoc)}

Startup == \E failing \in SUBSET Initializers : startup_init(failing)

FfBoolCall ==
    /\ started
    /\ \E d \in {JBool(FALSE), JBool(TRUE)}, u \in MainUsers, q \in MainProviders, b \in MainBackends :
          ff_bool("new-badge", d, u, q, b)

FfStrCall ==
    /\ started
    /\ \E u \in MainUsers, q \in MainProviders, b \in MainBackends :
          ff_str("cta-color", JStr("blue"), u, q, b)

\* the operator's hands on the two files: create, delete
WriteGbFile ==
    /\ gb_file' \in {NoFile, File(1, GbMainDoc)} \ {gb_file}
    /\ HandlesUnchanged /\ GbUnchanged /\ FsUnchanged
    /\ UNCHANGED <<BACKEND_PROVIDER, started, fs_file, call, thr, lists>>

WriteFsFile ==
    /\ fs_file' \in {NoFile, File(1, FsMainDoc)} \ {fs_file}
    /\ HandlesUnchanged /\ GbUnchanged /\ FsUnchanged
    /\ UNCHANGED <<BACKEND_PROVIDER, started, gb_file, call, thr, lists>>

Next == Startup \/ FfBoolCall \/ FfStrCall \/ WriteGbFile \/ WriteFsFile

Spec == Init /\ [][Next]_vars


IsFf(c) == c.fn \in {"ff_bool", "ff_str"}
\* a step that is a call of ff_bool or ff_str
FfStep == IsFf(call') /\ call' # call

\* the session handle of a client-backed adapter
HandleOf(p) ==
    IF p = P("flagd") THEN _of_client
    ELSE IF p = P("launchdarkly") THEN _ld_client
    ELSE IF p = P("launchdarkly-online") THEN _ld_online_client
    ELSE _fs_online_client

\* C7: with the flagsmith-online client initialized, a failing remote call makes
\* ff_bool / ff_str return the caller's default, coerced, and nothing is raised.
C7_OnlineDegradesToDefault ==
    (IsFf(call) /\ call.p = P("flagsmith-online") /\ _fs_online_client # None
        /\ call.backend = BackendRaises)
    => (~call.raised /\ call.ret = Coerce(call.fn, call.dflt))

\* the remote call failed, the default True came back
C7_Witness ==
    /\ call.fn = "ff_bool" /\ call.p = P("flagsmith-online") /\ _fs_online_client # None
    /\ call.backend = BackendRaises /\ call.dflt = JBool(TRUE)
    /\ ~call.raised /\ call.ret = JBool(TRUE)

\* C10: when the effective provider is flagd, launchdarkly or launchdarkly-online
\* and the backend call raises, ff_bool / ff_str raise; no value is returned.
C10_ClientErrorsPropagate ==
    (IsFf(call) /\ call.p \in {P("flagd"), P("launchdarkly"), P("launchdarkly-online")}
        /\ call.backend = BackendRaises)
    => call.raised

\* launchdarkly-online is initialized, its backend call raised, and so did the call
C10_Witness ==
    /\ IsFf(call) /\ call.p = P("launchdarkly-online") /\ _ld_online_client # None
    /\ call.backend = BackendRaises /\ call.raised

\* C8: an adapter whose initialization failed fails every later call
\* routed to it, and no later call initializes it: the four client-backed adapters
\* when their handle was left unset by startup_init, growthbook and flagsmith when
\* their first use failed (the last call to it raised with nothing cached).
C8_UnavailableForever ==
    [][(started /\ FfStep) =>
        /\ (call'.p \in ClientProviders /\ HandleOf(call'.p) = None) => call'.raised
        /\ <<_of_client, _ld_client, _ld_online_client, _fs_online_client>>' =
           <<_of_client, _ld_client, _ld_online_client, _fs_online_client>>
        /\ (call'.p = P("growthbook") /\ IsFf(call) /\ call.p = P("growthbook")
                /\ call.raised /\ _gb_doc = None)
           => (call'.raised /\ _gb_doc' = None)
        /\ (call'.p = P("flagsmith") /\ IsFf(call) /\ call.p = P("flagsmith")
                /\ call.raised /\ _fs_doc = None)
           => (call'.raised /\ _fs_doc' = None)]_vars

\* the part of C8 about the client-backed adapters (flagd, launchdarkly,
\* launchdarkly-online, flagsmith-online): one that startup_init left uninitialized
\* fails every later call routed to it, and no call sets a session handle.
C8_ClientAdaptersFailFast ==
    [][(started /\ FfStep) =>
        /\ (call'.p \in ClientProviders /\ HandleOf(call'.p) = None) => call'.raised
        /\ <<_of_client, _ld_client, _ld_online_client, _fs_online_client>>' =
           <<_of_client, _ld_client, _ld_online_client, _fs_online_client>>]_vars

\* flagd was left uninitialized; a call whose backend would have answered raised
C8_Witness ==
    /\ started /\ _of_client = None
    /\ IsFf(call) /\ call.p = P("flagd") /\ call.backend = Some(JBool(TRUE))
    /\ call.raised


\* the session handle that each initializer sets
C15Handle(a) ==
    IF a = "flagd" THEN _of_client
    ELSE IF a = "launchdarkly" THEN _ld_client
    ELSE IF a = "launchdarkly-online" THEN _ld_online_client
    ELSE _fs_online_client

\* C15: for every set of initializers that raise, startup_init completes, the
\* handle of every initializer that does not raise is set, and only the failing
\* ones are left unset.
C15_InitFailureIsolated ==
    call.fn = "startup_init" =>
        /\ started
        /\ \A a \in Initializers : (C15Handle(a) = None) <=> (a \in call.failing)

\* flagd and launchdarkly raised; the two initializers after them set their handles
C15_Witness ==
    /\ call.fn = "startup_init" /\ call.failing = {"flagd", "launchdarkly"}
    /\ started
    /\ _of_client = None /\ _ld_client = None
    /\ _ld_online_client = Client /\ _fs_online_client = Client


(***************************************************************************)
(* SpecCache: a deployment whose configured provider is one of the two     *)
(* document-backed adapters, with requests that name no provider, while    *)
(* the operator rewrites the document file: any content, parsable or not,  *)
(* at any modification time (later, equal or earlier), or removes it.      *)
(***************************************************************************)
MaxMtime == 2

GbAltDoc ==
    [kk \in GbFlagKeys |->
        IF kk = "new-badge" THEN Missing
        ELSE [defaultValue |-> JStr("green"), rules |-> << >>]]

FsAltDoc ==
    [features |-> <<[name |-> "cta-color", id |-> 2]>>,
     segments |-> << >>,
     feature_states |-> <<FsState(2, None, JStr("green"))>>]

\* a document whose second feature entry has no id
FsBadDoc ==
    [features |-> <<[name |-> "cta-color", id |-> 2], [name |-> "new-badge"]>>,
     segments |-> << >>,
     feature_states |-> <<FsState(2, None, JStr("gold"))>>]

CacheUsers == {"vip", "guest"}

InitCache ==
    /\ GlobalsInit
    /\ BACKEND_PROVIDER \in {P("growthbook"), P("flagsmith")} /\ started = TRUE
    /\ gb_file = NoFile /\ fs_file = NoFile

WriteGbDoc ==
    /\ BACKEND_PROVIDER = P("growthbook")
    /\ \E m \in 1..MaxMtime, c \in {GbMainDoc, GbAltDoc, Garbage} : gb_file' = File(m, c)
    /\ HandlesUnchanged /\ GbUnchanged /\ FsUnchanged
    /\ UNCHANGED <<BACKEND_PROVIDER, started, fs_file, call, thr, lists>>

WriteFsDoc ==
    /\ BACKEND_PROVIDER = P("flagsmith")
    /\ \E m \in 1..MaxMtime, c \in {FsMainDoc, FsAltDoc, FsBadDoc, Garbage} : fs_file' = File(m, c)
    /\ HandlesUnchanged /\ GbUnchanged /\ FsUnchanged
    /\ UNCHANGED <<BACKEND_PROVIDER, started, gb_file, call, thr, lists>>

RemoveDoc ==
    /\ gb_file' = NoFile /\ fs_file' = NoFile
    /\ HandlesUnchanged /\ GbUnchanged /\ FsUnchanged
    /\ UNCHANGED <<BACKEND_PROVIDER, started, call, thr, lists>>

CacheFfBool == \E d \in {JBool(FALSE), JBool(TRUE)}, u \in CacheUsers : ff_bool("new-badge", d, u, None, NoBackend)

CacheFfStr == \E u \in CacheUsers : ff_str("cta-color", JStr("blue"), u, None, NoBackend)

NextCache == WriteGbDoc \/ WriteFsDoc \/ RemoveDoc \/ CacheFfBool \/ CacheFfStr

SpecCache == InitCache /\ [][NextCache]_vars

\* the file would not be re-read: it is there, and not newer than the cache
C1Stale(f, doc, mtime) == doc # None /\ f.exists /\ f.mtime <= Val(mtime)
\* the cache may be replaced: the file is there and newer than the cache, or nothing is cached
C1Newer(f, mtime) == f.exists /\ (mtime = None \/ f.mtime > Val(mtime))
\* what the two adapters answer from the cached globals
C1GbValue == Coerce(call'.fn, GbEval(_gb_doc, call'.flag_key, call'.dflt, call'.user_id))
C1FsValue ==
    FfFlagsmith(call'.fn,
                [raised |-> FALSE, doc |-> _fs_doc, byname |-> _fs_feature_id_by_name,
                 segs |-> _fs_segment_by_id, states |-> _fs_states_by_fid],
                call'.flag_key, call'.dflt, call'.user_id).ret

\* C1: the cached document (and its mtime) of either file-backed adapter is replaced
\* only when the file's mtime is strictly greater than the cached one, or nothing is
\* cached; while the file's mtime is equal or earlier, whatever its content, an
\* evaluation returns the value computed from the cached document.
C1_ReplacedOnlyWhenNewer ==
    [][/\ (<<_gb_doc, _gb_mtime>>' # <<_gb_doc, _gb_mtime>>) => C1Newer(gb_file, _gb_mtime)
       /\ (<<_fs_doc, _fs_mtime>>' # <<_fs_doc, _fs_mtime>>) => C1Newer(fs_file, _fs_mtime)
       /\ (FfStep /\ call'.p = P("growthbook") /\ C1Stale(gb_file, _gb_doc, _gb_mtime))
          => (~call'.raised /\ call'.ret = C1GbValue /\ _gb_doc' = _gb_doc)
       /\ (FfStep /\ call'.p = P("flagsmith") /\ C1Stale(fs_file, _fs_doc, _fs_mtime))
          => (~call'.raised /\ call'.ret = C1FsValue /\ _fs_doc' = _fs_doc)]_vars

\* the file holds another document at an earlier or equal mtime, and the call was
\* answered from the cached one, with a value the file's document would not give
C1_Witness ==
    /\ IsFf(call) /\ call.p = P("growthbook") /\ ~call.raised
    /\ _gb_doc # None /\ gb_file.exists /\ gb_file.mtime <= Val(_gb_mtime)
    /\ gb_file.content \notin {Garbage, Val(_gb_doc)}
    /\ call.ret = Coerce(call.fn, GbEval(_gb_doc, call.flag_key, call.dflt, call.user_id))
    /\ call.ret # Coerce(call.fn, GbEval(Some(gb_file.content), call.flag_key, call.dflt, call.user_id))

\* the reload that a second, identical call would run on the state the call left
C14GbAgain == _gb_reload_if_needed(gb_file', _gb_doc', _gb_mtime')
C14FsAgain ==
    _fs_reload_if_needed(fs_file', _fs_doc', _fs_mtime', _fs_feature_id_by_name',
                         _fs_segment_by_id', _fs_states_by_fid')

\* the outcome of the same call run again on the state the call left, file untouched
C14Again ==
    IF call'.p = P("growthbook")
    THEN FfGrowthbook(call'.fn, C14GbAgain, call'.flag_key, call'.dflt, call'.user_id)
    ELSE FfFlagsmith(call'.fn, C14FsAgain, call'.flag_key, call'.dflt, call'.user_id)

\* the second call leaves the caches as the first left them
C14CachesKept ==
    /\ <<C14GbAgain.doc, C14GbAgain.mtime>> = <<_gb_doc', _gb_mtime'>>
    /\ <<C14FsAgain.doc, C14FsAgain.mtime, C14FsAgain.byname, C14FsAgain.segs, C14FsAgain.states>>
       = <<_fs_doc', _fs_mtime', _fs_feature_id_by_name', _fs_segment_by_id', _fs_states_by_fid'>>

\* C14: an evaluation through growthbook or flagsmith, run again with identical
\* inputs and the file untouched, has the same outcome (the same value), and the
\* second run leaves the cached document, the cached mtime and the indexes as the
\* first left them.
C14_ReadsIdempotent ==
    [][(FfStep /\ call'.p \in {P("growthbook"), P("flagsmith")}) =>
        /\ C14Again.raised = call'.raised
        /\ ~call'.raised => C14Again.ret = call'.ret
        /\ C14CachesKept]_vars

\* the same when the first evaluation returned a value
C14_ReadsIdempotentAfterReturn ==
    [][(FfStep /\ call'.p \in {P("growthbook"), P("flagsmith")} /\ ~call'.raised) =>
        /\ ~C14Again.raised /\ C14Again.ret = call'.ret
        /\ C14CachesKept]_vars

\* a growthbook evaluation loaded the file and returned a forced value; the file is
\* as that evaluation saw it
C14_LoadedAndAnswered ==
    /\ IsFf(call) /\ call.p = P("growthbook") /\ ~call.raised
    /\ call.ret # Coerce(call.fn, call.dflt)
    /\ gb_file.exists /\ _gb_mtime = Some(gb_file.mtime) /\ _gb_doc = Some(gb_file.content)


\* the three indexes of document d, built whole
FsDerived(d) ==
    [byname |-> FsIndexFeatures(d.features, 1, EmptyDict),
     segs |-> FsIndexSegments(d.segments, 1, EmptyDict),
     states |-> FsIndexStates(d.feature_states, 1, EmptyDict)]

C18Indexes == [byname |-> _fs_feature_id_by_name, segs |-> _fs_segment_by_id, states |-> _fs_states_by_fid]

\* C18: between operations the three indexes are exactly those derived from the
\* cached document (empty when nothing is cached); a reload that fails while it
\* builds them does not leave the new document cached with cleared or partly
\* filled indexes.
C18_IndexesMatchDocument ==
    IF _fs_doc = None THEN C18Indexes = FsDerived([features |-> << >>, segments |-> << >>, feature_states |-> << >>])
    ELSE /\ FsBadFeature(Val(_fs_doc).features) = 0
         /\ C18Indexes = FsDerived(Val(_fs_doc))

\* the same in the states where the cached document has no malformed entry
C18_IndexesMatchWellFormed ==
    (_fs_doc # None /\ FsBadFeature(Val(_fs_doc).features) = 0) => C18Indexes = FsDerived(Val(_fs_doc))

\* the new document is cached and the state index still holds the old document's states
C18_NewDocumentOldStates ==
    /\ _fs_doc = Some(FsBadDoc)
    /\ _fs_states_by_fid = FsDerived(FsMainDoc).states

\* the file of the adapter the call was routed to
C19File(p) == IF p = P("growthbook") THEN gb_file ELSE fs_file

\* C19: an evaluation through growthbook or flagsmith whose file does not exist
\* fails, whether or not a document is cached, and leaves the cached documents,
\* mtimes and indexes as they were.
C19_MissingPathFails ==
    [][(FfStep /\ call'.p \in {P("growthbook"), P("flagsmith")} /\ ~C19File(call'.p).exists) =>
        /\ call'.raised
        /\ UNCHANGED <<_gb_doc, _gb_mtime, _fs_doc, _fs_mtime, _fs_feature_id_by_name,
                       _fs_segment_by_id, _fs_states_by_fid>>]_vars

\* flagsmith has a document cached, the file is gone, and the call failed
C19_Witness ==
    /\ IsFf(call) /\ call.p = P("flagsmith") /\ call.raised
    /\ ~fs_file.exists /\ _fs_doc = Some(FsMainDoc)
    /\ C18Indexes = FsDerived(FsMainDoc)

\* the file holds a well-formed document newer than the cache
C20GbNew == C1Newer(gb_file, _gb_mtime) /\ gb_file.content # Garbage
C20FsNew ==
    /\ C1Newer(fs_file, _fs_mtime) /\ fs_file.content # Garbage
    /\ FsBadFeature(fs_file.content.features) = 0

\* what flagsmith answers the call from document d alone
C20FsValue(d) ==
    FfFlagsmith(call'.fn, [raised |-> FALSE, doc |-> Some(d)] @@ FsDerived(d),
                call'.flag_key, call'.dflt, call'.user_id).ret

C9_FileDegradesToDefault ==
    [][(FfStep /\ call'.p = P("flagsmith")
            /\ _load_json_with_cache(fs_file, _fs_mtime).raised)
       => (~call'.raised /\ call'.ret = Coerce(call'.fn, call'.dflt))]_vars


(***************************************************************************)
(* SpecCoerce: _fs_bool_from_state and _fs_str_from_state on every         *)
(* selected state of CoerceStates, and on no state.                        *)
(***************************************************************************)
CoerceValues == {Missing, JNull, JBool(TRUE), JBool(FALSE), JStr(""), JStr("false"), JStr("red")}
CoerceEnabled == {Missing, JNull, JBool(TRUE), JBool(FALSE)}
CoerceStates ==
    {None} \cup {Some([feature_id |-> 1, segment_id |-> None, value |-> v, enabled |-> e])
                 : v \in CoerceValues, e \in CoerceEnabled}

InitCoerce ==
    /\ GlobalsInit
    /\ BACKEND_PROVIDER = P("flagsmith") /\ started = FALSE
    /\ gb_file = NoFile /\ fs_file = NoFile

FsBoolFromStateCall ==
    /\ \E st \in CoerceStates, d \in {JBool(TRUE), JBool(FALSE)} :
          call' = [fn |-> "_fs_bool_from_state", state |-> st, dflt |-> d,
                   ret |-> _fs_bool_from_state(st, d)]
    /\ HandlesUnchanged /\ GbUnchanged /\ FsUnchanged /\ EnvUnchanged

FsStrFromStateCall ==
    /\ \E st \in CoerceStates, d \in {JStr("blue"), JStr("")} :
          call' = [fn |-> "_fs_str_from_state", state |-> st, dflt |-> d,
                   ret |-> _fs_str_from_state(st, d)]
    /\ HandlesUnchanged /\ GbUnchanged /\ FsUnchanged /\ EnvUnchanged

NextCoerce == FsBoolFromStateCall \/ FsStrFromStateCall

SpecCoerce == InitCoerce /\ [][NextCoerce]_vars

\* the state of the call has a value (a key `value` that is not null)
C13HasValue == call.state # None /\ Val(call.state).value \notin {Missing, JNull}
\* the state of the call has a key `enabled`
C13HasEnabled == call.state # None /\ Val(call.state).enabled # Missing

\* C13: _fs_bool_from_state gives the truthiness of the state's value when it has
\* one; else bool(enabled) when the state has `enabled`; else the caller's default;
\* and the caller's default when no state was selected.
C13_BoolFromState ==
    call.fn = "_fs_bool_from_state" =>
        call.ret = JBool(IF C13HasValue THEN PyBool(Val(call.state).value)
                         ELSE IF C13HasEnabled THEN PyBool(Val(call.state).enabled)
                         ELSE PyBool(call.dflt))

\* a state without value and enabled = true, default false: the result is true
C13_Witness ==
    /\ call.fn = "_fs_bool_from_state" /\ ~C13HasValue /\ C13HasEnabled
    /\ Val(call.state).enabled = JBool(TRUE) /\ call.dflt = JBool(FALSE)
    /\ call.ret = JBool(TRUE)


(***************************************************************************)
(* SpecAnon: requests with and without a userId to each of the six         *)
(* adapters, all initialized, on documents that target "anonymous".        *)
(***************************************************************************)
AnonGbDoc ==
    [kk \in GbFlagKeys |->
        IF kk = "new-badge"
        THEN [defaultValue |-> JBool(FALSE),
              rules |-> <<[condition |-> [userId |-> JStr("anonymous"), plan |-> Missing], force |-> JBool(TRUE)]>>]
        ELSE [defaultValue |-> JStr("blue"),
              rules |-> <<[condition |-> [userId |-> JStr("anonymous"), plan |-> Missing], force |-> JStr("red")]>>]]

AnonFsDoc ==
    [features |-> <<[name |-> "new-badge", id |-> 1], [name |-> "cta-color", id |-> 2]>>,
     segments |-> <<[id |-> 1, rules |-> <<[type |-> "ALL", conditions |->
                        <<[operator |-> "EQUAL", property |-> "userId", value |-> JStr("anonymous")]>>]>>]>>,
     feature_states |->
        <<[feature_id |-> 1, segment_id |-> None, value |-> Missing, enabled |-> JBool(FALSE)],
          [feature_id |-> 1, segment_id |-> Some(1), value |-> Missing, enabled |-> JBool(TRUE)],
          FsState(2, None, JStr("blue")), FsState(2, Some(1), JStr("red"))>>]

AnonUsers == {"", "anonymous", "vip"}
AnonBackends == {NoBackend, BackendRaises, Some(JNull), Some(JBool(TRUE)), Some(JStr("red"))}

InitAnon ==
    /\ CachesInit
    /\ _of_client = Client /\ _ld_client = Client
    /\ _ld_online_client = Client /\ _fs_online_client = Client
    /\ call = NoCall /\ thr = << >> /\ lists = << >>
    /\ BACKEND_PROVIDER \in KnownProviders /\ started = TRUE
    /\ gb_file = File(1, AnonGbDoc)
    /\ fs_file = File(1, AnonFsDoc)

AnonFfBool ==
    \E d \in {JBool(FALSE), JBool(TRUE)}, u \in AnonUsers, b \in AnonBackends :
        ff_bool("new-badge", d, u, None, b)

AnonFfStr ==
    \E d \in {JStr("blue"), JStr("grey")}, u \in AnonUsers, b \in AnonBackends :
        ff_str("cta-color", d, u, None, b)

NextAnon == AnonFfBool \/ AnonFfStr

SpecAnon == InitAnon /\ [][NextAnon]_vars

\* what the flagsmith branch returns for the call just made, were its userId u
C12FsValue(u) ==
    LET state == FsResolve(_fs_doc', _fs_feature_id_by_name', _fs_segment_by_id',
                           _fs_states_by_fid', call'.flag_key, u)
    IN  IF call'.fn = "ff_bool" THEN _fs_bool_from_state(state, call'.dflt)
        ELSE _fs_str_from_state(state, call'.dflt)

\* C12: for every adapter the context of a request with an empty userId carries
\* userId "anonymous", and ff_bool/ff_str return what they return for "anonymous".
C12_AnonymousEveryAdapter ==
    [][(FfStep /\ call'.user_id = "" /\ ~call'.raised) =>
        /\ call'.uid = "anonymous"
        /\ call'.p = P("growthbook") =>
              call'.ret = Coerce(call'.fn, GbEval(_gb_doc', call'.flag_key, call'.dflt, "anonymous"))
        /\ call'.p = P("flagsmith") => call'.ret = C12FsValue("anonymous")]_vars

\* the same for the four adapters that go through a client: the userId handed to
\* the SDK is "anonymous"
C12_AnonymousClientAdapters ==
    [][(FfStep /\ call'.user_id = "" /\ call'.p \in ClientProviders /\ ~call'.raised) =>
        call'.uid = "anonymous"]_vars

\* growthbook answers a request without userId differently from one of "anonymous"
C12_GrowthbookDiffers ==
    /\ IsFf(call) /\ call.p = P("growthbook") /\ call.user_id = "" /\ ~call.raised
    /\ call.ret # Coerce(call.fn, GbEval(_gb_doc, call.flag_key, call.dflt, "anonymous"))


(***************************************************************************)
(* SpecUnknown: requests that name no recognized provider (none, an empty  *)
(* one, an unknown one) to a deployment whose configured default is not a  *)
(* recognized name either.                                                 *)
(***************************************************************************)
UnknownDefaults == {P("unknown-name"), P("")}
UnknownRequests ==
    {None, Some(P("")), Some(P("unknown-name")),
     Some([name |-> "unknown-name", caps |-> TRUE, pad |-> TRUE])}

InitUnknown ==
    /\ CachesInit
    /\ _of_client \in {None, Client} /\ _ld_client \in {None, Client}
    /\ _ld_online_client \in {None, Client} /\ _fs_online_client \in {None, Client}
    /\ call = NoCall /\ thr = << >> /\ lists = << >>
    /\ BACKEND_PROVIDER \in UnknownDefaults /\ started = TRUE
    /\ gb_file \in {NoFile, File(1, GbMainDoc)}
    /\ fs_file \in {NoFile, File(1, FsMainDoc)}

UnknownFfBool ==
    \E d \in {JBool(FALSE), JBool(TRUE)}, q \in UnknownRequests, b \in MainBackends :
        ff_bool("new-badge", d, "vip", q, b)

UnknownFfStr ==
    \E d \in {JStr("blue"), JBool(TRUE)}, q \in UnknownRequests, b \in MainBackends :
        ff_str("cta-color", d, "vip", q, b)

NextUnknown == UnknownFfBool \/ UnknownFfStr

SpecUnknown == InitUnknown /\ [][NextUnknown]_vars

\* the call returned the caller's default and touched nothing
C23DefaultAndFrame ==
    /\ ~call'.raised /\ call'.ret = Coerce(call'.fn, call'.dflt)
    /\ UNCHANGED <<_of_client, _ld_client, _ld_online_client, _fs_online_client,
                   _gb_doc, _gb_mtime, _fs_doc, _fs_mtime, _fs_feature_id_by_name,
                   _fs_segment_by_id, _fs_states_by_fid>>

\* C23: when neither the requested provider nor the configured default is a
\* recognized name, ff_bool and ff_str return the caller's default, coerced, raise
\* nothing and leave every handle, cached document, mtime and index as it was.
C23_UnknownProviderDefault ==
    [][FfStep => C23DefaultAndFrame]_vars

\* the same when the configured default is not the empty string
C23_UnknownNonEmptyDefault ==
    [][(FfStep /\ StrTruthy(BACKEND_PROVIDER)) => C23DefaultAndFrame]_vars

\* with an empty configured default a call was routed to flagd and failed
C23_RoutedToFlagd ==
    /\ IsFf(call) /\ BACKEND_PROVIDER = P("") /\ call.p = P("flagd") /\ call.raised


(***************************************************************************)
(* SpecConc: two request threads (FastAPI runs the `def` routes in a       *)
(* thread pool) inside _fs_resolve_state, one step per access to a shared  *)
(* object: a global, a dict, a list object, the file.  No lock is taken    *)
(* anywhere in app.py.  Here _fs_states_by_fid maps a feature id to the    *)
(* identity of a list object and `lists` holds the objects, because        *)
(* app.py:315-317 appends to the list it finds in the dict.                *)
(***************************************************************************)
Threads == {"t1", "t2"}

\* each thread serves at most this many requests
MaxCalls == 2

ConcOldDoc ==
    [features |-> <<[name |-> "cta-color", id |-> 1]>>,
     segments |-> <<[id |-> 1, rules |-> <<[type |-> "ALL", conditions |-> <<FsCondVip>>]>>]>>,
     feature_states |-> <<FsState(1, None, JStr("blue")), FsState(1, Some(1), JStr("red"))>>]

ConcNewDoc ==
    [features |-> <<[name |-> "cta-color", id |-> 1]>>,
     segments |-> <<[id |-> 1, rules |-> <<[type |-> "ALL", conditions |-> <<FsCondVip>>]>>]>>,
     feature_states |-> <<FsState(1, None, JStr("green")), FsState(1, Some(1), JStr("gold"))>>]

ConcUsers == {"vip"}

\* the locals of a thread that is not in a call
Idle ==
    [pc |-> "idle", flag_key |-> "", user_id |-> "", last_mtime |-> None, mtime |-> None,
     doc |-> None, it |-> << >>, i |-> 0, arr |-> 0, n0 |-> 0, fid |-> None,
     states |-> 0, matched |-> {}, ret |-> None, out |-> "none", n |-> 0]

InitConc ==
    /\ CachesInit /\ ClientsInit
    /\ call = NoCall /\ lists = << >>
    /\ thr = [t \in Threads |-> Idle]
    /\ BACKEND_PROVIDER = P("flagsmith") /\ started = TRUE
    /\ gb_file = NoFile
    /\ fs_file = File(1, ConcOldDoc)

ConcFrame == HandlesUnchanged /\ GbUnchanged /\ UNCHANGED <<BACKEND_PROVIDER, started, gb_file, call>>
Goto(t, l) == thr' = [thr EXCEPT ![t] = l]
\* the frame's locals end with the call; what the caller got is kept
Done(t, out, st) ==
    Goto(t, [Idle EXCEPT !.pc = "done", !.out = out, !.ret = st, !.n = thr[t].n,
                         !.flag_key = thr[t].flag_key, !.user_id = thr[t].user_id])
Raised(t) == Done(t, "raised", None)
Returns(t, st) == Done(t, "ret", st)
FsGlobalsUnchanged == FsUnchanged /\ UNCHANGED <<fs_file, lists>>

\* a request enters _fs_resolve_state(flag_key, {"userId": user_id})
ConcStart(t) ==
    /\ thr[t].pc = "idle"
    /\ thr[t].n < MaxCalls
    /\ \E u \in ConcUsers :
          Goto(t, [Idle EXCEPT !.pc = "load", !.flag_key = "cta-color", !.user_id = u, !.n = thr[t].n + 1])
    /\ FsGlobalsUnchanged /\ ConcFrame

\* app.py:298: the argument _fs_mtime is read
ConcLoadArg(t) ==
    /\ thr[t].pc = "load"
    /\ Goto(t, [thr[t] EXCEPT !.pc = "exists", !.last_mtime = _fs_mtime])
    /\ FsGlobalsUnchanged /\ ConcFrame

\* app.py:144-145
ConcExists(t) ==
    /\ thr[t].pc = "exists"
    /\ IF fs_file.exists THEN Goto(t, [thr[t] EXCEPT !.pc = "stat"]) ELSE Raised(t)
    /\ FsGlobalsUnchanged /\ ConcFrame

\* app.py:146-147, 150 and 299-300: stat, compare, return when nothing is newer
ConcStat(t) ==
    /\ thr[t].pc = "stat"
    /\ IF ~fs_file.exists THEN Raised(t)
       ELSE IF thr[t].last_mtime = None \/ fs_file.mtime > Val(thr[t].last_mtime)
            THEN Goto(t, [thr[t] EXCEPT !.pc = "parse", !.mtime = Some(fs_file.mtime)])
            ELSE Goto(t, [thr[t] EXCEPT !.pc = "q_doc"])
    /\ FsGlobalsUnchanged /\ ConcFrame

\* app.py:148-149
ConcParse(t) ==
    /\ thr[t].pc = "parse"
    /\ IF ~fs_file.exists \/ fs_file.content = Garbage THEN Raised(t)
       ELSE Goto(t, [thr[t] EXCEPT !.pc = "set_doc", !.doc = Some(fs_file.content)])
    /\ FsGlobalsUnchanged /\ ConcFrame

\* app.py:301
ConcSetDoc(t) ==
    /\ thr[t].pc = "set_doc"
    /\ _fs_doc' = thr[t].doc
    /\ Goto(t, [thr[t] EXCEPT !.pc = "set_mtime"])
    /\ UNCHANGED <<_fs_mtime, _fs_feature_id_by_name, _fs_segment_by_id, _fs_states_by_fid, fs_file, lists>>
    /\ ConcFrame

\* app.py:302
ConcSetMtime(t) ==
    /\ thr[t].pc = "set_mtime"
    /\ _fs_mtime' = thr[t].mtime
    /\ Goto(t, [thr[t] EXCEPT !.pc = "clear_names"])
    /\ UNCHANGED <<_fs_doc, _fs_feature_id_by_name, _fs_segment_by_id, _fs_states_by_fid, fs_file, lists>>
    /\ ConcFrame

\* app.py:304
ConcClearNames(t) ==
    /\ thr[t].pc = "clear_names"
    /\ _fs_feature_id_by_name' = EmptyDict
    /\ Goto(t, [thr[t] EXCEPT !.pc = "names_iter"])
    /\ UNCHANGED <<_fs_doc, _fs_mtime, _fs_segment_by_id, _fs_states_by_fid, fs_file, lists>>
    /\ ConcFrame

\* app.py:305: the global _fs_doc is read again for the list to loop over
ConcNamesIter(t) ==
    /\ thr[t].pc = "names_iter"
    /\ Goto(t, [thr[t] EXCEPT !.pc = "names_loop", !.it = Val(_fs_doc).features, !.i = 1])
    /\ FsGlobalsUnchanged /\ ConcFrame

\* app.py:305-306, one iteration
ConcNamesLoop(t) ==
    /\ thr[t].pc = "names_loop"
    /\ IF thr[t].i > Len(thr[t].it)
       THEN /\ Goto(t, [thr[t] EXCEPT !.pc = "clear_segs"])
            /\ UNCHANGED _fs_feature_id_by_name
       ELSE /\ _fs_feature_id_by_name' =
                  DictSet(_fs_feature_id_by_name, thr[t].it[thr[t].i].name, thr[t].it[thr[t].i].id)
            /\ Goto(t, [thr[t] EXCEPT !.i = @ + 1])
    /\ UNCHANGED <<_fs_doc, _fs_mtime, _fs_segment_by_id, _fs_states_by_fid, fs_file, lists>>
    /\ ConcFrame

\* app.py:308
ConcClearSegs(t) ==
    /\ thr[t].pc = "clear_segs"
    /\ _fs_segment_by_id' = EmptyDict
    /\ Goto(t, [thr[t] EXCEPT !.pc = "segs_iter"])
    /\ UNCHANGED <<_fs_doc, _fs_mtime, _fs_feature_id_by_name, _fs_states_by_fid, fs_file, lists>>
    /\ ConcFrame

\* app.py:309
ConcSegsIter(t) ==
    /\ thr[t].pc = "segs_iter"
    /\ Goto(t, [thr[t] EXCEPT !.pc = "segs_loop", !.it = Val(_fs_doc).segments, !.i = 1])
    /\ FsGlobalsUnchanged /\ ConcFrame

\* app.py:309-310, one iteration
ConcSegsLoop(t) ==
    /\ thr[t].pc = "segs_loop"
    /\ IF thr[t].i > Len(thr[t].it)
       THEN /\ Goto(t, [thr[t] EXCEPT !.pc = "clear_states"])
            /\ UNCHANGED _fs_segment_by_id
       ELSE /\ _fs_segment_by_id' =
                  DictSet(_fs_segment_by_id, thr[t].it[thr[t].i].id, thr[t].it[thr[t].i])
            /\ Goto(t, [thr[t] EXCEPT !.i = @ + 1])
    /\ UNCHANGED <<_fs_doc, _fs_mtime, _fs_feature_id_by_name, _fs_states_by_fid, fs_file, lists>>
    /\ ConcFrame

\* app.py:312
ConcClearStates(t) ==
    /\ thr[t].pc = "clear_states"
    /\ _fs_states_by_fid' = EmptyDict
    /\ Goto(t, [thr[t] EXCEPT !.pc = "states_iter"])
    /\ UNCHANGED <<_fs_doc, _fs_mtime, _fs_feature_id_by_name, _fs_segment_by_id, fs_file, lists>>
    /\ ConcFrame

\* app.py:313
ConcStatesIter(t) ==
    /\ thr[t].pc = "states_iter"
    /\ Goto(t, [thr[t] EXCEPT !.pc = "states_get", !.it = Val(_fs_doc).feature_states, !.i = 1])
    /\ FsGlobalsUnchanged /\ ConcFrame

\* app.py:314-315: arr = _fs_states_by_fid.get(fid, []), a new list when absent
ConcStatesGet(t) ==
    /\ thr[t].pc = "states_get"
    /\ IF thr[t].i > Len(thr[t].it)
       THEN /\ Goto(t, [thr[t] EXCEPT !.pc = "q_doc"])
            /\ UNCHANGED lists
       ELSE LET fid == thr[t].it[thr[t].i].feature_id
            IN  IF fid \in DOMAIN _fs_states_by_fid
                THEN /\ Goto(t, [thr[t] EXCEPT !.pc = "states_append", !.arr = _fs_states_by_fid[fid]])
                     /\ UNCHANGED lists
                ELSE /\ lists' = Append(lists, << >>)
                     /\ Goto(t, [thr[t] EXCEPT !.pc = "states_append", !.arr = Len(lists) + 1])
    /\ FsUnchanged /\ UNCHANGED fs_file /\ ConcFrame

\* app.py:316: arr.append(st)
ConcStatesAppend(t) ==
    /\ thr[t].pc = "states_append"
    /\ lists' = [lists EXCEPT ![thr[t].arr] = Append(@, thr[t].it[thr[t].i])]
    /\ Goto(t, [thr[t] EXCEPT !.pc = "states_put"])
    /\ FsUnchanged /\ UNCHANGED fs_file /\ ConcFrame

\* app.py:317: _fs_states_by_fid[fid] = arr
ConcStatesPut(t) ==
    /\ thr[t].pc = "states_put"
    /\ _fs_states_by_fid' = DictSet(_fs_states_by_fid, thr[t].it[thr[t].i].feature_id, thr[t].arr)
    /\ Goto(t, [thr[t] EXCEPT !.pc = "states_get", !.i = @ + 1])
    /\ UNCHANGED <<_fs_doc, _fs_mtime, _fs_feature_id_by_name, _fs_segment_by_id, fs_file, lists>>
    /\ ConcFrame

\* app.py:336-337
ConcQDoc(t) ==
    /\ thr[t].pc = "q_doc"
    /\ IF _fs_doc = None THEN Returns(t, None) ELSE Goto(t, [thr[t] EXCEPT !.pc = "q_fid"])
    /\ FsGlobalsUnchanged /\ ConcFrame

\* app.py:338-340
ConcQFid(t) ==
    /\ thr[t].pc = "q_fid"
    /\ LET fid == DictGet(_fs_feature_id_by_name, thr[t].flag_key)
       IN  IF fid = None \/ Val(fid) = 0 THEN Returns(t, None)
           ELSE Goto(t, [thr[t] EXCEPT !.pc = "q_states", !.fid = fid])
    /\ FsGlobalsUnchanged /\ ConcFrame

\* app.py:341-343: states = _fs_states_by_fid.get(fid) or []
ConcQStates(t) ==
    /\ thr[t].pc = "q_states"
    /\ IF Val(thr[t].fid) \in DOMAIN _fs_states_by_fid
          /\ lists[_fs_states_by_fid[Val(thr[t].fid)]] # << >>
       THEN Goto(t, [thr[t] EXCEPT !.pc = "segs_begin", !.states = _fs_states_by_fid[Val(thr[t].fid)]])
       ELSE Returns(t, None)
    /\ FsGlobalsUnchanged /\ ConcFrame

\* app.py:344-345: the iterator over _fs_segment_by_id.items() notes the dict's size
ConcSegsBegin(t) ==
    /\ thr[t].pc = "segs_begin"
    /\ Goto(t, [thr[t] EXCEPT !.pc = "segs_next", !.n0 = Cardinality(DOMAIN _fs_segment_by_id),
                              !.i = 1, !.matched = {}])
    /\ FsGlobalsUnchanged /\ ConcFrame

\* the i-th key of a dict whose keys were inserted in ascending order
KeyAt(d, i) == CHOOSE x \in DOMAIN d : Cardinality({y \in DOMAIN d : y < x}) = i - 1

\* app.py:345-347, one next() of the dict iterator: RuntimeError("dictionary changed
\* size during iteration") when the size differs from the noted one
ConcSegsNext(t) ==
    /\ thr[t].pc = "segs_next"
    /\ IF Cardinality(DOMAIN _fs_segment_by_id) # thr[t].n0 THEN Raised(t)
       ELSE IF thr[t].i > thr[t].n0 THEN Goto(t, [thr[t] EXCEPT !.pc = "scoped", !.i = 1])
       ELSE LET sid == KeyAt(_fs_segment_by_id, thr[t].i)
            IN  Goto(t, [thr[t] EXCEPT !.i = @ + 1,
                         !.matched = IF _fs_match_segment(_fs_segment_by_id[sid], thr[t].user_id)
                                     THEN @ \cup {sid} ELSE @])
    /\ FsGlobalsUnchanged /\ ConcFrame

\* app.py:348-350, one iteration over the list object `states`
ConcScoped(t) ==
    /\ thr[t].pc = "scoped"
    /\ IF thr[t].i > Len(lists[thr[t].states]) THEN Goto(t, [thr[t] EXCEPT !.pc = "default", !.i = 1])
       ELSE LET st == lists[thr[t].states][thr[t].i]
            IN  IF st.segment_id # None /\ Val(st.segment_id) \in thr[t].matched
                THEN Returns(t, Some(st))
                ELSE Goto(t, [thr[t] EXCEPT !.i = @ + 1])
    /\ FsGlobalsUnchanged /\ ConcFrame

\* app.py:351-354, one iteration over the list object `states`
ConcDefault(t) ==
    /\ thr[t].pc = "default"
    /\ IF thr[t].i > Len(lists[thr[t].states]) THEN Returns(t, None)
       ELSE LET st == lists[thr[t].states][thr[t].i]
            IN  IF st.segment_id = None THEN Returns(t, Some(st))
                ELSE Goto(t, [thr[t] EXCEPT !.i = @ + 1])
    /\ FsGlobalsUnchanged /\ ConcFrame

\* the request is over, the thread goes back to the pool
ConcFinish(t) ==
    /\ thr[t].pc = "done"
    /\ Goto(t, [Idle EXCEPT !.n = thr[t].n])
    /\ FsGlobalsUnchanged /\ ConcFrame

\* the operator rewrites environment.json, once
ConcWriteNew ==
    /\ fs_file = File(1, ConcOldDoc)
    /\ fs_file' = File(2, ConcNewDoc)
    /\ FsUnchanged /\ UNCHANGED <<thr, lists>> /\ ConcFrame

NextConc ==
    \/ ConcWriteNew
    \/ \E t \in Threads :
        \/ ConcStart(t) \/ ConcLoadArg(t) \/ ConcExists(t) \/ ConcStat(t) \/ ConcParse(t)
        \/ ConcSetDoc(t) \/ ConcSetMtime(t)
        \/ ConcClearNames(t) \/ ConcNamesIter(t) \/ ConcNamesLoop(t)
        \/ ConcClearSegs(t) \/ ConcSegsIter(t) \/ ConcSegsLoop(t)
        \/ ConcClearStates(t) \/ ConcStatesIter(t) \/ ConcStatesGet(t)
        \/ ConcStatesAppend(t) \/ ConcStatesPut(t)
        \/ ConcQDoc(t) \/ ConcQFid(t) \/ ConcQStates(t)
        \/ ConcSegsBegin(t) \/ ConcSegsNext(t) \/ ConcScoped(t) \/ ConcDefault(t)
        \/ ConcFinish(t)

SpecConc == InitConc /\ [][NextConc]_vars


\* what _fs_resolve_state returns for cta-color when document d is loaded whole
ConcResolveOn(d, user_id) ==
    FsResolve(Some(d), FsIndexFeatures(d.features, 1, EmptyDict),
              FsIndexSegments(d.segments, 1, EmptyDict),
              FsIndexStates(d.feature_states, 1, EmptyDict), "cta-color", user_id)

\* C6: a request that runs _fs_resolve_state while another request reloads gets the
\* state the old document gives or the state the new document gives; it never sees
\* cleared or half-filled indexes, so it neither returns None for cta-color, which
\* has a state in both documents, nor fails.
C6_NoPartialIndex ==
    \A t \in Threads :
        thr[t].pc = "done" =>
            /\ thr[t].out = "ret"
            /\ thr[t].ret \in {ConcResolveOn(ConcOldDoc, thr[t].user_id),
                               ConcResolveOn(ConcNewDoc, thr[t].user_id)}

\* the reader returns None while another request replaces the loaded old document
C6_AbsentDuringReload ==
    \E t \in Threads :
        /\ thr[t].pc = "done" /\ thr[t].out = "ret" /\ thr[t].ret = None
        /\ \E w \in Threads \ {t} :
              thr[w].last_mtime = Some(1) /\ thr[w].doc = Some(ConcNewDoc)

\* the reader fails with "dictionary changed size during iteration"
C6_ReaderRaises == \E t \in Threads : thr[t].pc = "done" /\ thr[t].out = "raised"


\* the state index with each list object read through the heap
ConcStatesIndex == [fid \in DOMAIN _fs_states_by_fid |-> lists[_fs_states_by_fid[fid]]]

\* no request is inside _fs_resolve_state
ConcQuiet == \A t \in Threads : thr[t].pc \in {"idle", "done"}

\* C17: when requests have reloaded the same, unchanged file at once and all have
\* finished, the cached document, the cached mtime and the three indexes (order and
\* multiplicity of the states of each feature included) are those of one reload.
C17_ConcurrentReloadsBenign ==
    (ConcQuiet /\ fs_file = File(1, ConcOldDoc) /\ (\E t \in Threads : thr[t].n > 0)) =>
        /\ _fs_doc = Some(ConcOldDoc) /\ _fs_mtime = Some(1)
        /\ _fs_feature_id_by_name = FsDerived(ConcOldDoc).byname
        /\ _fs_segment_by_id = FsDerived(ConcOldDoc).segs
        /\ ConcStatesIndex = FsDerived(ConcOldDoc).states

\* both requests are over and a state of cta-color is in the index twice
C17_DuplicatedState ==
    /\ ConcQuiet /\ fs_file = File(1, ConcOldDoc)
    /\ 1 \in DOMAIN _fs_states_by_fid
    /\ \E i, j \in 1..Len(ConcStatesIndex[1]) : i # j /\ ConcStatesIndex[1][i] = ConcStatesIndex[1][j]

\* both requests are over and a state of cta-color is missing from the index
C17_LostState ==
    /\ ConcQuiet /\ fs_file = File(1, ConcOldDoc) /\ _fs_doc = Some(ConcOldDoc)
    /\ 1 \in DOMAIN _fs_states_by_fid
    /\ \E k \in 1..2 : \A i \in 1..Len(ConcStatesIndex[1]) :
          ConcStatesIndex[1][i] # ConcOldDoc.feature_states[k]

\* the (document, mtime) pairs one reload can read: the old document at mtime 1, the
\* new one at mtime 2, or the new one at mtime 1 when the file is rewritten between
\* its stat() and its json.load()
C21ReadPairs ==
    {<<Some(ConcOldDoc), Some(1)>>, <<Some(ConcNewDoc), Some(2)>>, <<Some(ConcNewDoc), Some(1)>>}

\* C21: when requests have reloaded the file at once while it was rewritten and all
\* have finished, the cached document is the one that was read at the cached mtime;
\* the old document is never left with the new mtime.
C21_CacheEntryCoherent ==
    (ConcQuiet /\ _fs_doc # None) => <<_fs_doc, _fs_mtime>> \in C21ReadPairs

\* both requests are over, the file is the new one, and the cache holds the old
\* document under the new mtime
C21_OldDocumentNewMtime ==
    /\ ConcQuiet /\ fs_file = File(2, ConcNewDoc)
    /\ _fs_doc = Some(ConcOldDoc) /\ _fs_mtime = Some(2)

====
